---- MODULE Spec2Model ----
(***************************************************************************)
(* Model of xtask/src/main.rs: the toolchain bootstrap driver (subcommands *)
(* setup, build-linker, build-llvm, build), its external processes, and    *)
(* the part of the file system it reads and writes.                        *)
(***************************************************************************)
EXTENDS Integers, Sequences, FiniteSets, TLC

VARIABLES
    cacheRoot,  \* what dirs::cache_dir() yields: "platform" (Some) or "none" (None)
    srcDir,     \* <cache>/llvm-project: "absent" | "complete"
    linkerDir,  \* <cache>/sbpf-linker:  "absent" | "complete"
    linkerBin,  \* <cache>/sbpf-linker/target/release/sbpf-linker exists
    fs,         \* entries of <cache>/llvm-install and of <cache>/llvm-build
    fs0,        \* the entries as the directory iterator of the walk read them
    todo,       \* entries the walk has not yielded yet
    config,     \* contents of <project>/.cargo/config.toml (<<>> when absent)
    pc,         \* position of main
    hist        \* one record per run of the program; the last one is the current run

vars == <<cacheRoot, srcDir, linkerDir, linkerBin, fs, fs0, todo, config, pc, hist>>

\* Number of program runs a behaviour holds.
MaxRuns == 2

----------------------------------------------------------------------------
\* Paths (std::path::PathBuf) as sequences of components.

LLVM_REPO == "https://github.com/blueshift-gg/llvm-project.git"
LLVM_BRANCH == "BPF_i128_ret"
LINKER_REPO == "https://github.com/blueshift-gg/sbpf-linker"
LINKER_BRANCH == "u128_mul_libcall"

Join(p, q) == p \o q

\* lines 102-103, 167-168: the arguments of git
GitCloneArgs(branch, repo, dest) == <<"clone", "--branch", branch, repo>> \o dest

cache_dir(root) ==
    Join(IF root = "platform" THEN <<"$CACHE">> ELSE <<"/tmp">>, <<"u128-bpf-toolchain">>)

SrcDirPath(root) == Join(cache_dir(root), <<"llvm-project">>)
BuildDirPath(root) == Join(cache_dir(root), <<"llvm-build">>)
InstallDirPath(root) == Join(cache_dir(root), <<"llvm-install">>)
LinkerDirPath(root) == Join(cache_dir(root), <<"sbpf-linker">>)
LinkerBinPath(root) == Join(LinkerDirPath(root), <<"target", "release", "sbpf-linker">>)
BuildDirAsPrefix(root) == Join(cache_dir(root), <<"llvm-build">>)

\* line 109: the value of LLVM_PREFIX for the linker build
LlvmPrefixEnv(root) == Join(cache_dir(root), <<"llvm-install">>)
ProjectRoot == <<"$PROJECT">>
ConfigPath == Join(Join(ProjectRoot, <<".cargo">>), <<"config.toml">>)

----------------------------------------------------------------------------
\* The install tree and the build tree.  The entries of the install tree are
\* siblings in <install>/bin; the build tree holds the files they are built as.

Marker == "llvm-config"
InstallPaths == {"llvm-config", "llvm-ar", "llvm-ranlib"}
BuildPaths == {"B/llvm-config", "B/llvm-ar"}
Paths == InstallPaths \cup BuildPaths

None == [k |-> "none", v |-> "", abs |-> FALSE]
File(c) == [k |-> "file", v |-> c, abs |-> FALSE]
Dir == [k |-> "dir", v |-> "", abs |-> FALSE]
AbsLink(t) == [k |-> "link", v |-> t, abs |-> TRUE]
RelLink(t) == [k |-> "link", v |-> t, abs |-> FALSE]

EmptyTree == [p \in Paths |-> None]

\* What `cmake --build --target install` leaves under CMAKE_INSTALL_MODE=ABS_SYMLINK:
\* built files in the build tree, an absolute symlink per installed file, and the
\* build's own (relative) symlinks copied as they are.
InstalledTree ==
    [p \in Paths |->
        CASE p = "B/llvm-config" -> File("B/llvm-config")
          [] p = "B/llvm-ar" -> File("B/llvm-ar")
          [] p = "llvm-config" -> AbsLink("B/llvm-config")
          [] p = "llvm-ar" -> AbsLink("B/llvm-ar")
          [] p = "llvm-ranlib" -> RelLink("llvm-ar")]

\* An install that stopped after installing the entries of S.
PartialInstall(f, S) ==
    [p \in Paths |-> IF p \in BuildPaths \/ p \in S THEN InstalledTree[p] ELSE f[p]]

\* Path::exists: follows symlinks, false for a broken one.
RECURSIVE Follows(_, _, _)
Follows(f, p, n) ==
    IF f[p].k = "none" THEN FALSE
    ELSE IF f[p].k # "link" THEN TRUE
    ELSE IF n = 0 THEN FALSE
    ELSE Follows(f, f[p].v, n - 1)

PathExists(f, p) == Follows(f, p, Cardinality(Paths))

----------------------------------------------------------------------------
\* Runs of the program and what each did.

Ok == <<>>

Event(e, path) == [ev |-> e, path |-> path]

NewRun(c) ==
    [cmd |-> c, log |-> <<>>, status |-> "running", err |-> Ok, banner |-> FALSE,
     touched |-> FALSE, markerAtStart |-> FALSE, llvmOk |-> FALSE, linkerOk |-> FALSE]

Cur == hist[Len(hist)]

Clones == {"clone llvm-project", "clone sbpf-linker"}

\* What a run logs about a checkout: the skip, the clone it starts, the clone's success.
IsCheckout(e) ==
    \/ e.ev \in {"checkout skipped"} \cup Clones
    \/ e.ev = "ok" /\ \E d \in Clones : e.path = <<d>>

\* What is kept of the runs before the current one: the command, how it ended,
\* what it did about the checkouts and, of a run that succeeded, all it invoked.
Closed(h) ==
    [i \in 1..Len(h) |->
        [h[i] EXCEPT !.err = Ok, !.banner = FALSE, !.markerAtStart = FALSE,
                     !.llvmOk = FALSE, !.linkerOk = FALSE,
                     !.log = IF h[i].status = "ok" THEN @ ELSE SelectSeq(@, IsCheckout)]]

Logged(h, e) == [h EXCEPT ![Len(h)].log = Append(@, e)]

\* main returns Err(e): the error is printed and the exit status is non-zero.
Exited(h, e) == [h EXCEPT ![Len(h)].status = "err", ![Len(h)].err = e]

\* main returns Ok(()): exit status zero.
Completed(h) == [h EXCEPT ![Len(h)].status = "ok"]

----------------------------------------------------------------------------
\* build_llvm, lines 249-276: move targets over the symlinks that point to them.

\* fs::read_link
ReadLinkFails(f, p) == f[p].k # "link"

\* fs::rename(from, to), where `to` is an existing symlink: fails when `from` is
\* missing (ENOENT) or is a directory (ENOTDIR).
RenameFails(f, from, to) ==
    \/ f[from].k = "none"
    \/ f[from].k = "dir" /\ from # to

RenameCopies(f, from, to) == [f EXCEPT ![to] = f[from]]

\* fs::rename(from, to) when it succeeds; renaming a path onto itself does nothing.
Rename(f, from, to) ==
    IF from = to THEN f ELSE [f EXCEPT ![to] = f[from], ![from] = None]

AnyTarget(e) == TRUE

NeverAbsolute(e) == FALSE

\* line 267: target.is_absolute()
IsAbsolute(e) == e.abs

\* line 260: entry.file_type().is_symlink(), from the type the listing recorded
IsSymlinkEntry(p) == fs0[p].k = "link"

ReadEntryError == <<"failed to read filesystem entry while traversing install prefix">>
ReadLinkError(link) == <<"failed to read the link", link>>
RenameErrorLinkOnly(target, link) ==
    <<"failed to move the target file to the location of the symlink", link>>
RenameError(target, link) ==
    <<"failed to move the target file", target, "to the location of the symlink", link>>

\* How the directory iterator treats an entry that was moved away after the
\* directory was read: it is not yielded any more ("dropped"), yielded with the
\* type the listing recorded ("dtype"), or yielded and its type looked up ("lstat").
ListingModes == {"dropped", "dtype", "lstat"}

\* One iteration of the loop on entry p: the tree afterwards and the error, if any.
\* ioFails: the rename fails for a reason outside the tree (permissions, ...).
VisitEntry(f, p, mode, ioFails) ==
    IF f[p].k = "none" /\ mode = "dropped" THEN [fs |-> f, err |-> Ok]
    ELSE IF f[p].k = "none" /\ mode = "lstat" THEN [fs |-> f, err |-> ReadEntryError]
    ELSE IF ~IsSymlinkEntry(p) THEN [fs |-> f, err |-> Ok]
    ELSE IF ReadLinkFails(f, p) THEN [fs |-> f, err |-> ReadLinkError(p)]
    ELSE IF ~IsAbsolute(f[p]) THEN [fs |-> f, err |-> Ok]
    ELSE IF ioFails \/ RenameFails(f, f[p].v, p)
         THEN [fs |-> f, err |-> RenameError(f[p].v, p)]
    ELSE [fs |-> Rename(f, f[p].v, p), err |-> Ok]

Revisited(t, p) == t

\* line 253: the iterator yields an entry once; what it has still to yield after p
Remaining(t, p) == t \ {p}

\* The entries WalkDir yields under the install prefix.
Listing(f) == {p \in InstallPaths : f[p].k # "none"}

----------------------------------------------------------------------------
\* External processes and the errors main can end with.

\* Command::status(): the process exited with success, exited non-zero, or could
\* not be spawned.
ProcStatus == {"ok", "nonzero", "spawn_failed"}

IgnoresStatus(status, description) == Ok

\* run_command, lines 293-303
run_command(status, description) ==
    IF status = "spawn_failed" THEN <<"failed to run: ", description>>
    ELSE IF status = "nonzero" THEN <<"command failed: ", description>>
    ELSE Ok

\* the Debug text of the two cmake commands of build_llvm
cmake_configure == "cmake -S <src>/llvm -B <build> -G Ninja ... -DCMAKE_INSTALL_PREFIX=<install>"
cmake_build == "cmake --build <build> --target install"

ConfigureUnchecked(status) == Ok

\* lines 222-227
ConfigureResult(status) ==
    IF status = "spawn_failed"
    THEN <<"failed to configure LLVM build with command", cmake_configure>>
    ELSE IF status = "nonzero"
    THEN <<"failed to configure LLVM build with command", cmake_configure, "exit status: 1">>
    ELSE Ok

\* lines 242-247 (the messages quote cmake_configure)
BuildResult(status) ==
    IF status = "spawn_failed"
    THEN <<"failed to build LLVM with command", cmake_configure>>
    ELSE IF status = "nonzero"
    THEN <<"failed to build LLVM with command", cmake_configure, "exit status: 1">>
    ELSE Ok

\* std::fs::create_dir_all(..)? failing: the io error itself is the error
CreateDirError(path) == <<"io error creating">> \o path
WriteConfigError == <<"failed to write .cargo/config.toml">>

NeverExists(d) == FALSE

\* lines 97, 162: <dir>.exists()
DirExists(d) == d # "absent"

NeverBuilt(f) == FALSE

\* line 178: llvm_config.exists()
LlvmAlreadyBuilt(f) == PathExists(f, Marker)

----------------------------------------------------------------------------
\* .cargo/config.toml: a sequence of lines, each a sequence of text pieces.

\* Path::display
Display(path) ==
    [i \in 1..(2 * Len(path) - 1) |-> IF i % 2 = 1 THEN path[(i + 1) \div 2] ELSE "/"]

\* lines 124-142: format!(.., linker_bin.display())
ConfigContent(linker_bin) ==
    << <<"[unstable]">>,
       <<"build-std = [\"core\", \"alloc\"]">>,
       <<"">>,
       <<"[target.bpfel-unknown-none]">>,
       <<"rustflags = [">>,
       <<"    \"-C\", \"linker=">> \o Display(linker_bin) \o <<"\",">>,
       <<"    \"-C\", \"panic=abort\",">>,
       <<"    \"-C\", \"link-arg=--dump-module=llvm_dump\",">>,
       <<"    \"-C\", \"link-arg=--llvm-args=-bpf-stack-size=4096\",">>,
       <<"    \"-C\", \"relocation-model=static\",">>,
       <<"]">>,
       <<"">>,
       <<"[alias]">>,
       <<"build-bpf = \"build --release --target bpfel-unknown-none\"">>,
       <<"xtask = \"run --package xtask --\"">> >>

AppendsToFile(old, new) == old \o new

\* line 144: std::fs::write replaces the whole file
WriteFile(old, new) == new

Absent == <<>>
Truncated == << <<"">> >>
ManualConfig == << <<"# edited by hand">>, <<"[alias]">>, <<"b = \"build\"">> >>

----------------------------------------------------------------------------
\* main, lines 35-63, and the functions it calls.

Commands == {"setup", "build-linker", "build-llvm", "build"}

AllStartWithLlvm(c) == "setup_llvm"

\* lines 39-60: the function the subcommand starts with
FirstStep(c) ==
    IF c \in {"setup", "build-llvm"} THEN "setup_llvm"
    ELSE IF c = "build-linker" THEN "setup_linker"
    ELSE "build_project"

BannerInEveryArm(c) == TRUE

\* lines 43-49: the banner is part of the Setup arm only
PrintsBanner(c) == c = "setup"

Start(c) ==
    /\ pc = "idle"
    /\ Len(hist) < MaxRuns
    /\ hist' = Append(Closed(hist), NewRun(c))
    /\ pc' = FirstStep(c)
    /\ UNCHANGED <<cacheRoot, srcDir, linkerDir, linkerBin, fs, fs0, todo, config>>

\* main ends with the error e
Fail(h, e) ==
    /\ hist' = Exited(h, e)
    /\ pc' = "idle"

\* a file system call of the program failed on `path`
IoFailed(h, path) == Logged(h, Event("io error", path))

\* the process started as `description` ended with `status`
ProcExited(h, description, status) == Logged(h, Event(status, <<description>>))

\* setup_llvm returned Ok: lines 41-42 and 55
LlvmReturns(h) ==
    LET h1 == [h EXCEPT ![Len(h)].llvmOk = TRUE]
    IN  IF Cur.cmd = "setup"
        THEN hist' = h1 /\ pc' = "setup_linker"
        ELSE hist' = Completed(h1) /\ pc' = "idle"

\* setup_llvm, lines 152-171
SetupLlvmBegin ==
    /\ pc = "setup_llvm"
    /\ \E created \in BOOLEAN :
        LET h0 == [hist EXCEPT ![Len(hist)].markerAtStart = PathExists(fs, Marker)]
        IN  IF ~created
            THEN Fail(IoFailed(h0, cache_dir(cacheRoot)), CreateDirError(cache_dir(cacheRoot)))
            ELSE IF DirExists(srcDir)
            THEN /\ hist' = Logged(h0, Event("checkout skipped", SrcDirPath(cacheRoot)))
                 /\ pc' = "llvm_built_check"
            ELSE /\ hist' = Logged(h0, Event("clone llvm-project",
                                GitCloneArgs(LLVM_BRANCH, LLVM_REPO, SrcDirPath(cacheRoot))))
                 /\ pc' = "llvm_clone_wait"
    /\ UNCHANGED <<cacheRoot, srcDir, linkerDir, linkerBin, fs, fs0, todo, config>>

\* lines 165-170: git clone exits (git removes what it created when it fails)
LlvmCloneExit(status) ==
    /\ pc = "llvm_clone_wait"
    /\ srcDir' = IF status = "ok" THEN "complete" ELSE srcDir
    /\ LET e == run_command(status, "clone llvm-project")
           h == ProcExited(hist, "clone llvm-project", status)
       IN  IF e = Ok THEN hist' = h /\ pc' = "llvm_built_check" ELSE Fail(h, e)
    /\ UNCHANGED <<cacheRoot, linkerDir, linkerBin, fs, fs0, todo, config>>

\* lines 173-188, and build_llvm up to the start of cmake (lines 192-222)
LlvmBuiltCheck ==
    /\ pc = "llvm_built_check"
    /\ IF LlvmAlreadyBuilt(fs) THEN LlvmReturns(hist)
       ELSE \E created \in BOOLEAN :
            IF ~created
            THEN Fail(IoFailed(hist, BuildDirPath(cacheRoot)),
                      CreateDirError(BuildDirPath(cacheRoot)))
            ELSE /\ hist' = Logged(hist, Event("configure LLVM", InstallDirPath(cacheRoot)))
                 /\ pc' = "configure_wait"
    /\ UNCHANGED <<cacheRoot, srcDir, linkerDir, linkerBin, fs, fs0, todo, config>>

\* lines 222-243: the configure exits; on success the build is started
ConfigureExit(status) ==
    /\ pc = "configure_wait"
    /\ LET e == ConfigureResult(status)
           h == ProcExited(hist, "configure LLVM", status)
       IN  IF e = Ok
           THEN /\ hist' = Logged(h, Event("build LLVM", BuildDirPath(cacheRoot)))
                /\ pc' = "build_wait"
           ELSE Fail(h, e)
    /\ UNCHANGED <<cacheRoot, srcDir, linkerDir, linkerBin, fs, fs0, todo, config>>

\* The trees an install that did not finish can leave.
UnfinishedInstalls(f) == {f} \cup {PartialInstall(f, S) : S \in SUBSET InstallPaths}

\* lines 242-253: the build and install exits; on success the walk is opened
BuildExit(status) ==
    /\ pc = "build_wait"
    /\ LET e == BuildResult(status)
           h == ProcExited(hist, "build LLVM", status)
       IN  IF e = Ok
           THEN /\ fs' = (IF status = "ok" THEN InstalledTree ELSE fs)
                /\ fs0' = fs'
                /\ todo' = Listing(fs')
                /\ hist' = Logged(h, Event("resolve symlinks", InstallDirPath(cacheRoot)))
                /\ pc' = "walk"
           ELSE /\ fs' \in (IF status = "spawn_failed" THEN {fs} ELSE UnfinishedInstalls(fs))
                /\ Fail(h, e)
                /\ UNCHANGED <<fs0, todo>>
    /\ UNCHANGED <<cacheRoot, srcDir, linkerDir, linkerBin, config>>

\* lines 253-276: one iteration of the loop
WalkStep(p) ==
    /\ pc = "walk"
    /\ p \in todo
    /\ \E mode \in ListingModes, ioFails \in BOOLEAN :
        LET r == VisitEntry(fs, p, mode, ioFails)
        IN  /\ fs' = r.fs
            /\ IF r.err = Ok
               THEN todo' = Remaining(todo, p) /\ UNCHANGED <<pc, hist>>
               ELSE todo' = todo /\ Fail(IoFailed(hist, <<p>>), r.err)
    /\ UNCHANGED <<cacheRoot, srcDir, linkerDir, linkerBin, fs0, config>>

\* line 278: the iterator is exhausted, build_llvm and setup_llvm return Ok
WalkDone ==
    /\ pc = "walk"
    /\ todo = {}
    /\ LlvmReturns(hist)
    /\ UNCHANGED <<cacheRoot, srcDir, linkerDir, linkerBin, fs, fs0, todo, config>>

LinkerBuildEvent == Event("build sbpf-linker", LlvmPrefixEnv(cacheRoot))

\* setup_linker, lines 86-117
SetupLinkerBegin ==
    /\ pc = "setup_linker"
    /\ \E created \in BOOLEAN :
        IF ~created
        THEN Fail(IoFailed(hist, cache_dir(cacheRoot)), CreateDirError(cache_dir(cacheRoot)))
        ELSE IF DirExists(linkerDir)
        THEN /\ hist' = Logged(Logged(hist, Event("checkout skipped", LinkerDirPath(cacheRoot))),
                               LinkerBuildEvent)
             /\ pc' = "linker_build_wait"
        ELSE /\ hist' = Logged(hist, Event("clone sbpf-linker",
                                GitCloneArgs(LINKER_BRANCH, LINKER_REPO, LinkerDirPath(cacheRoot))))
             /\ pc' = "linker_clone_wait"
    /\ UNCHANGED <<cacheRoot, srcDir, linkerDir, linkerBin, fs, fs0, todo, config>>

\* lines 100-117: git clone exits; on success cargo build is started
LinkerCloneExit(status) ==
    /\ pc = "linker_clone_wait"
    /\ linkerDir' = IF status = "ok" THEN "complete" ELSE linkerDir
    /\ LET e == run_command(status, "clone sbpf-linker")
           h == ProcExited(hist, "clone sbpf-linker", status)
       IN  IF e = Ok
           THEN hist' = Logged(h, LinkerBuildEvent) /\ pc' = "linker_build_wait"
           ELSE Fail(h, e)
    /\ UNCHANGED <<cacheRoot, srcDir, linkerBin, fs, fs0, todo, config>>

\* lines 111-117: cargo build --release exits
LinkerBuildExit(status) ==
    /\ pc = "linker_build_wait"
    /\ linkerBin' = (linkerBin \/ status = "ok")
    /\ LET e == run_command(status, "build sbpf-linker")
           h == ProcExited(hist, "build sbpf-linker", status)
       IN  IF e = Ok THEN hist' = h /\ pc' = "write_config" ELSE Fail(h, e)
    /\ UNCHANGED <<cacheRoot, srcDir, linkerDir, fs, fs0, todo, config>>

\* lines 119-148, then lines 43-49 and 62 of main
WriteConfig ==
    /\ pc = "write_config"
    /\ \E io \in {"ok", "create_dir_failed", "write_failed"} :
        IF io = "create_dir_failed"
        THEN /\ config' = config
             /\ Fail(IoFailed(hist, Join(ProjectRoot, <<".cargo">>)),
                     CreateDirError(Join(ProjectRoot, <<".cargo">>)))
        ELSE IF io = "write_failed"
        THEN /\ config' \in {config, Truncated}
             /\ Fail(IoFailed(hist, ConfigPath), WriteConfigError)
        ELSE /\ config' = WriteFile(config, ConfigContent(LinkerBinPath(cacheRoot)))
             /\ hist' = Completed([Logged(hist, Event("write config", ConfigPath))
                            EXCEPT ![Len(hist)].linkerOk = TRUE,
                                   ![Len(hist)].banner = PrintsBanner(Cur.cmd)])
             /\ pc' = "idle"
    /\ UNCHANGED <<cacheRoot, srcDir, linkerDir, linkerBin, fs, fs0, todo>>

\* build_project, lines 281-288
BuildProjectBegin ==
    /\ pc = "build_project"
    /\ hist' = Logged(hist, Event("build project", ProjectRoot))
    /\ pc' = "project_wait"
    /\ UNCHANGED <<cacheRoot, srcDir, linkerDir, linkerBin, fs, fs0, todo, config>>

\* lines 283-290: cargo +nightly build-bpf exits
BuildProjectExit(status) ==
    /\ pc = "project_wait"
    /\ LET e == run_command(status, "build project")
           h == ProcExited(hist, "build project", status)
       IN  IF e = Ok THEN hist' = Completed(h) /\ pc' = "idle" ELSE Fail(h, e)
    /\ UNCHANGED <<cacheRoot, srcDir, linkerDir, linkerBin, fs, fs0, todo, config>>

----------------------------------------------------------------------------
\* The environment: the program is killed, or the user edits the config file.

\* The program and its child are killed.  A killed git clone removes what it
\* created; a killed install leaves what it had installed so far.
Interrupt ==
    /\ pc # "idle"
    /\ hist' = [hist EXCEPT ![Len(hist)].status = "killed"]
    /\ pc' = "idle"
    /\ fs' \in (IF pc = "build_wait" THEN UnfinishedInstalls(fs) \cup {InstalledTree} ELSE {fs})
    /\ UNCHANGED <<cacheRoot, srcDir, linkerDir, linkerBin, fs0, todo, config>>

EnvEditConfig ==
    /\ pc = "idle"
    /\ Len(hist) < MaxRuns
    /\ config # ManualConfig
    /\ config' = ManualConfig
    /\ hist' = IF hist = <<>> THEN hist ELSE [hist EXCEPT ![Len(hist)].touched = TRUE]
    /\ UNCHANGED <<cacheRoot, srcDir, linkerDir, linkerBin, fs, fs0, todo, pc>>

----------------------------------------------------------------------------

Init ==
    /\ cacheRoot \in {"platform", "none"}
    /\ srcDir = "absent"
    /\ linkerDir = "absent"
    /\ linkerBin = FALSE
    /\ fs = EmptyTree
    /\ fs0 = EmptyTree
    /\ todo = {}
    /\ config = Absent
    /\ pc = "idle"
    /\ hist = <<>>

Next ==
    \/ \E c \in Commands : Start(c)
    \/ SetupLlvmBegin
    \/ \E status \in ProcStatus : LlvmCloneExit(status)
    \/ LlvmBuiltCheck
    \/ \E status \in ProcStatus : ConfigureExit(status)
    \/ \E status \in ProcStatus : BuildExit(status)
    \/ \E p \in InstallPaths : WalkStep(p)
    \/ WalkDone
    \/ SetupLinkerBegin
    \/ \E status \in ProcStatus : LinkerCloneExit(status)
    \/ \E status \in ProcStatus : LinkerBuildExit(status)
    \/ WriteConfig
    \/ BuildProjectBegin
    \/ \E status \in ProcStatus : BuildProjectExit(status)
    \/ Interrupt
    \/ EnvEditConfig

Spec == Init /\ [][Next]_vars

\* The steps of the program itself and the exits of the processes it waits for.
ProgramStep ==
    \/ SetupLlvmBegin
    \/ \E status \in ProcStatus : LlvmCloneExit(status)
    \/ LlvmBuiltCheck
    \/ \E status \in ProcStatus : ConfigureExit(status)
    \/ \E status \in ProcStatus : BuildExit(status)
    \/ \E p \in InstallPaths : WalkStep(p)
    \/ WalkDone
    \/ SetupLinkerBegin
    \/ \E status \in ProcStatus : LinkerCloneExit(status)
    \/ \E status \in ProcStatus : LinkerBuildExit(status)
    \/ WriteConfig
    \/ BuildProjectBegin
    \/ \E status \in ProcStatus : BuildProjectExit(status)

\* Runs of the program that nothing interrupts.
RunNext ==
    \/ \E c \in Commands : Start(c)
    \/ ProgramStep

\* The program keeps running while it is not finished, and every process it
\* waits for exits at some time.
FairSpec == Init /\ [][RunNext]_vars /\ WF_vars(ProgramStep)

----------------------------------------------------------------------------
\* The walk of build_llvm on any install tree: the install prefix may hold
\* anything before the install step adds to it.

InstallEntries(p) ==
    {File(p), Dir, None} \cup {AbsLink(t) : t \in Paths} \cup {RelLink(t) : t \in Paths}

BuildEntries(p) == {File(p), Dir, None}

Trees ==
    {f \in [Paths -> {File(p) : p \in Paths} \cup {Dir, None}
                     \cup {AbsLink(t) : t \in Paths} \cup {RelLink(t) : t \in Paths}] :
        \A p \in Paths : f[p] \in (IF p \in InstallPaths THEN InstallEntries(p) ELSE BuildEntries(p))}

\* build-llvm with the checkout present, at line 253: cmake has installed.
WalkInit ==
    /\ cacheRoot = "platform"
    /\ srcDir = "complete"
    /\ linkerDir = "absent"
    /\ linkerBin = FALSE
    /\ fs \in Trees
    /\ fs0 = fs
    /\ todo = Listing(fs)
    /\ config = Absent
    /\ pc = "walk"
    /\ hist = Logged(Logged(Logged(Logged(<<NewRun("build-llvm")>>,
                Event("checkout skipped", SrcDirPath(cacheRoot))),
                Event("configure LLVM", InstallDirPath(cacheRoot))),
                Event("build LLVM", BuildDirPath(cacheRoot))),
                Event("resolve symlinks", InstallDirPath(cacheRoot)))

WalkNext ==
    \/ \E p \in InstallPaths : WalkStep(p)
    \/ WalkDone

WalkSpec == WalkInit /\ [][WalkNext]_vars

----------------------------------------------------------------------------
\* Runs of build-llvm on a cache whose source checkout the user may have removed
\* (the checkout is the largest directory of the cache and the build does not
\* need it once LLVM is installed).

EnvRemoveCheckout ==
    /\ pc = "idle"
    /\ Len(hist) < MaxRuns
    /\ srcDir = "complete"
    /\ srcDir' = "absent"
    /\ UNCHANGED <<cacheRoot, linkerDir, linkerBin, fs, fs0, todo, config, pc, hist>>

CacheNext ==
    \/ Start("build-llvm")
    \/ SetupLlvmBegin
    \/ \E status \in ProcStatus : LlvmCloneExit(status)
    \/ LlvmBuiltCheck
    \/ \E status \in ProcStatus : ConfigureExit(status)
    \/ \E status \in ProcStatus : BuildExit(status)
    \/ \E p \in InstallPaths : WalkStep(p)
    \/ WalkDone
    \/ EnvRemoveCheckout

CacheSpec == Init /\ [][CacheNext]_vars

----------------------------------------------------------------------------
\* Properties of the runs (checked under Spec).

Repos == {"llvm-project", "sbpf-linker"}
CloneName(r) == IF r = "llvm-project" THEN "clone llvm-project" ELSE "clone sbpf-linker"
Dest(r) == IF r = "llvm-project" THEN SrcDirPath(cacheRoot) ELSE LinkerDirPath(cacheRoot)

FailureEvents == {"nonzero", "spawn_failed", "io error"}
LlvmSteps == {"configure LLVM", "build LLVM", "resolve symlinks"}
LinkerSteps == {"build sbpf-linker", "write config"}
Steps == Clones \cup LlvmSteps \cup LinkerSteps \cup {"build project"}

Evs(log) == [i \in 1..Len(log) |-> log[i].ev]
Did(log, S) == \E i \in 1..Len(log) : log[i].ev \in S
StepsOf(log) == Evs(SelectSeq(log, LAMBDA e : e.ev \in Steps))

RECURSIVE AllLogs(_)
AllLogs(h) == IF h = <<>> THEN <<>> ELSE AllLogs(SubSeq(h, 1, Len(h) - 1)) \o h[Len(h)].log

\* What the runs so far did in the checkout step of repository r, in order:
\* "checkout skipped", the clone invoked, "ok" when that clone succeeded.
CheckoutSteps(r) ==
    Evs(SelectSeq(AllLogs(hist),
                  LAMBDA e : \/ e.ev = "checkout skipped" /\ e.path = Dest(r)
                             \/ e.ev = CloneName(r)
                             \/ e.ev = "ok" /\ e.path = <<CloneName(r)>>))

Count(s, x) == Cardinality({i \in 1..Len(s) : s[i] = x})

\* C1 as stated: two calls of the checkout step for one destination invoke the
\* clone exactly once in total, and the second call does not invoke it.
CheckoutTwiceClonesOnce ==
    \A r \in Repos :
        LET s == CheckoutSteps(r)
        IN  (pc = "idle" /\ Count(s, "checkout skipped") + Count(s, CloneName(r)) = 2)
                => Count(s, CloneName(r)) = 1 /\ s[Len(s)] = "checkout skipped"

\* C1 amended: once a checkout step has returned success (its clone succeeded or
\* the destination existed), every later checkout step for that destination
\* invokes no clone; so when the first call's clone succeeds, all calls together
\* invoke the clone exactly once.
CheckoutIdempotent ==
    \A r \in Repos :
        LET s == CheckoutSteps(r)
        IN  /\ \A i, j \in 1..Len(s) :
                (i < j /\ s[i] \in {"ok", "checkout skipped"}) => s[j] = "checkout skipped"
            /\ (Len(s) >= 2 /\ s[2] = "ok") => Count(s, CloneName(r)) = 1

CheckoutIdempotentWitness ==
    \E r \in Repos : CheckoutSteps(r) = <<CloneName(r), "ok", "checkout skipped">>

\* C2: a run in which the marker <install>/bin/llvm-config exists when setup_llvm
\* starts invokes neither the configure nor the build and install, and does not
\* walk the install tree.
MarkerSkipsBuild == (hist # <<>> /\ Cur.markerAtStart) => ~Did(Cur.log, LlvmSteps)

MarkerSkipsBuildWitness == hist # <<>> /\ Cur.markerAtStart /\ Cur.llvmOk

ResolvedTree ==
    [p \in Paths |->
        CASE p = "llvm-config" -> File("B/llvm-config")
          [] p = "llvm-ar" -> File("B/llvm-ar")
          [] p = "llvm-ranlib" -> RelLink("llvm-ar")
          [] OTHER -> None]

\* .cargo/config.toml as it is expected for the cache directory in use
ExpectedConfig ==
    << <<"[unstable]">>,
       <<"build-std = [\"core\", \"alloc\"]">>,
       <<"">>,
       <<"[target.bpfel-unknown-none]">>,
       <<"rustflags = [">>,
       <<"    \"-C\", \"linker=", IF cacheRoot = "platform" THEN "$CACHE" ELSE "/tmp",
         "/", "u128-bpf-toolchain", "/", "sbpf-linker", "/", "target", "/", "release",
         "/", "sbpf-linker", "\",">>,
       <<"    \"-C\", \"panic=abort\",">>,
       <<"    \"-C\", \"link-arg=--dump-module=llvm_dump\",">>,
       <<"    \"-C\", \"link-arg=--llvm-args=-bpf-stack-size=4096\",">>,
       <<"    \"-C\", \"relocation-model=static\",">>,
       <<"]">>,
       <<"">>,
       <<"[alias]">>,
       <<"build-bpf = \"build --release --target bpfel-unknown-none\"">>,
       <<"xtask = \"run --package xtask --\"">> >>

\* The state one successful setup from an empty cache ends in.
SetupFinalState ==
    /\ srcDir = "complete"
    /\ linkerDir = "complete"
    /\ linkerBin
    /\ fs = ResolvedTree
    /\ config = ExpectedConfig

FirstSetupSteps ==
    <<"clone llvm-project", "configure LLVM", "build LLVM", "resolve symlinks",
      "clone sbpf-linker", "build sbpf-linker", "write config">>

SecondSetupSteps == <<"build sbpf-linker", "write config">>

\* Every step of A that s holds comes before every step of B that it holds.
AllBefore(s, A, B) == \A i, j \in 1..Len(s) : (s[i] \in A /\ s[j] \in B) => i < j

\* The second of two setups that succeed, nothing having changed in between, does
\* no clone, no configure and no LLVM build, one linker build and one config write.
SecondSetupAsExpected ==
    (Len(hist) >= 2 /\ hist[2].cmd = "setup" /\ hist[2].status = "ok" /\ ~hist[1].touched)
        => StepsOf(hist[2].log) = SecondSetupSteps

\* C4 as stated: a setup that succeeds from the empty cache does, in order, one
\* clone of each repository, one LLVM configure and build and install, one linker
\* build and one config write; and the second setup is as above.
EndToEndClonesFirst ==
    (hist # <<>> /\ hist[1].cmd = "setup" /\ hist[1].status = "ok") =>
        LET s == StepsOf(hist[1].log)
        IN  /\ \A x \in Clones \cup {"configure LLVM", "build LLVM"} \cup LinkerSteps :
                    Count(s, x) = 1
            /\ AllBefore(s, Clones, {"configure LLVM", "build LLVM"})
            /\ AllBefore(s, {"configure LLVM"}, {"build LLVM"})
            /\ AllBefore(s, {"build LLVM"}, {"build sbpf-linker"})
            /\ AllBefore(s, {"build sbpf-linker"}, {"write config"})
            /\ SecondSetupAsExpected

\* C4 amended: a setup that succeeds from the empty cache does, in this order, the
\* LLVM clone, one configure, one build and install (and the walk), the linker
\* clone, one linker build and one config write; and the second setup is as above.
EndToEnd ==
    (hist # <<>> /\ hist[1].cmd = "setup" /\ hist[1].status = "ok") =>
        /\ StepsOf(hist[1].log) = FirstSetupSteps
        /\ SecondSetupAsExpected

EndToEndWitness ==
    /\ Len(hist) = 2 /\ pc = "idle"
    /\ \A i \in 1..2 : hist[i].cmd = "setup" /\ hist[i].status = "ok" /\ ~hist[i].touched
    /\ SetupFinalState

\* C5: a setup that succeeds after a setup that failed or was killed ends in the
\* state one successful setup from the empty cache ends in.
ResumesCorrectly ==
    (/\ Len(hist) >= 2 /\ pc = "idle"
     /\ Cur.cmd = "setup" /\ Cur.status = "ok"
     /\ hist[Len(hist) - 1].cmd = "setup"
     /\ hist[Len(hist) - 1].status \in {"err", "killed"})
        => SetupFinalState

\* C8: when setup_linker has returned Ok, config.toml is the expected text for
\* the linker path, whatever the file held before.
ConfigExact ==
    (pc = "idle" /\ hist # <<>> /\ Cur.linkerOk /\ ~Cur.touched) => config = ExpectedConfig

ConfigExactWitness ==
    /\ pc = "idle" /\ Len(hist) = 2
    /\ hist[1].touched
    /\ Cur.linkerOk /\ Cur.cmd = "build-linker"
    /\ config = ExpectedConfig

\* The positions of the log at which a step failed.
Failures(log) == {i \in 1..Len(log) : log[i].ev \in FailureEvents}

\* What a run that completed has done last.
RanToEnd(run) ==
    CASE run.cmd \in {"setup", "build-linker"} ->
            run.log # <<>> /\ run.log[Len(run.log)].ev = "write config"
      [] run.cmd = "build-llvm" -> run.llvmOk
      [] OTHER -> run.log # <<>> /\ run.log[Len(run.log)] = Event("ok", <<"build project">>)

\* C9: a run ends with a non-zero exit status and an error exactly when one of
\* its steps has failed, and that step is the last one it did; it ends with
\* exit status zero exactly when every step it ran completed.
ExitStatus ==
    hist # <<>> =>
        LET F == Failures(Cur.log)
        IN  /\ F # {} => (F = {Len(Cur.log)} /\ pc = "idle" /\ Cur.status = "err" /\ Cur.err # Ok)
            /\ Cur.status = "err" => F # {}
            /\ Cur.status = "ok" => (F = {} /\ pc = "idle" /\ RanToEnd(Cur))
            /\ (pc = "idle" /\ F = {} /\ Cur.status # "killed") => Cur.status = "ok"

ExitStatusWitness ==
    /\ pc = "idle" /\ Len(hist) = 2
    /\ hist[1].status = "err"
    /\ Cur.status = "ok" /\ Cur.cmd = "build"

\* C10: the banner is printed only by setup, and only after setup_llvm and
\* setup_linker have both returned Ok in that run with no step failed.
BannerOnlyOnSuccess ==
    (hist # <<>> /\ Cur.banner) =>
        /\ Cur.cmd = "setup"
        /\ Cur.llvmOk /\ Cur.linkerOk
        /\ Cur.status = "ok"
        /\ Failures(Cur.log) = {}

BannerWitness == hist # <<>> /\ Cur.banner /\ Cur.cmd = "setup"

\* The steps that are external processes.
Processes == Clones \cup {"configure LLVM", "build LLVM", "build sbpf-linker", "build project"}

\* The place of a step in the order of setup.
Rank(x) == CHOOSE i \in 1..Len(FirstSetupSteps) : FirstSetupSteps[i] = x

\* The processes the run has started and that have not exited.
Running(log) ==
    Cardinality({i \in 1..Len(log) : log[i].ev \in Processes})
        - Cardinality({i \in 1..Len(log) : log[i].ev \in ProcStatus})

\* C11: in a run of setup the steps occur in the order LLVM clone, configure,
\* build and install, symlink resolution, linker clone, linker build, config
\* write, each at most once; a step starts only when no earlier step has failed
\* and every process started before it has exited with success; at most one
\* process is running at any time.
SequentialOrder ==
    hist # <<>> =>
        LET log == Cur.log
            s == StepsOf(log)
        IN  /\ Cur.cmd = "setup" =>
                    \A i, j \in 1..Len(s) : i < j => Rank(s[i]) < Rank(s[j])
            /\ \A x \in Steps : Count(s, x) <= 1
            /\ \A i, j \in 1..Len(log) :
                    (i < j /\ log[j].ev \in Steps) =>
                        /\ log[i].ev \notin FailureEvents
                        /\ log[i].ev \in Processes =>
                                \E k \in (i + 1)..(j - 1) : log[k] = Event("ok", <<log[i].ev>>)
            /\ Running(log) \in {0, 1}

SequentialOrderWitness ==
    /\ Len(hist) = 1 /\ pc = "idle"
    /\ Cur.cmd = "setup" /\ Cur.status = "ok"
    /\ StepsOf(Cur.log) = FirstSetupSteps

\* The checkout step of setup_linker has returned Ok in the current run.
LinkerCheckedOut ==
    \E i \in 1..Len(Cur.log) :
        \/ Cur.log[i] = Event("checkout skipped", LinkerDirPath(cacheRoot))
        \/ Cur.log[i] = Event("ok", <<"clone sbpf-linker">>)

\* C12: a run of setup_linker that gets past the checkout step starts the linker
\* build exactly once, whether or not the linker binary exists already, with
\* LLVM_PREFIX the install prefix of setup_llvm.
LinkerAlwaysBuilt ==
    (hist # <<>> /\ LinkerCheckedOut) =>
        /\ Count(Evs(Cur.log), "build sbpf-linker") = 1
        /\ \A i \in 1..Len(Cur.log) :
            /\ Cur.log[i].ev = "build sbpf-linker" => Cur.log[i].path = InstallDirPath(cacheRoot)
            /\ Cur.log[i].ev = "configure LLVM" => Cur.log[i].path = InstallDirPath(cacheRoot)

LinkerAlwaysBuiltWitness ==
    /\ Len(hist) = 2 /\ linkerBin
    /\ hist[1].cmd = "build-linker" /\ hist[1].status = "ok"
    /\ Cur.cmd = "setup" /\ Cur.status = "ok"
    /\ Count(Evs(Cur.log), "build sbpf-linker") = 1

\* The positions of main inside setup_llvm, setup_linker and build_project.
LlvmPcs == {"setup_llvm", "llvm_clone_wait", "llvm_built_check", "configure_wait",
            "build_wait", "walk"}
LinkerPcs == {"setup_linker", "linker_clone_wait", "linker_build_wait", "write_config"}
ProjectPcs == {"build_project", "project_wait"}

\* What one step may do, given the subcommand of the run it belongs to.
FrameStep ==
    hist' # <<>> =>
        LET run == hist'[Len(hist')]
        IN  CASE run.cmd = "build-llvm" ->
                    /\ pc' \in LlvmPcs \cup {"idle"}
                    /\ ~Did(run.log, {"clone sbpf-linker"} \cup LinkerSteps)
                    /\ pc # "idle" => UNCHANGED <<linkerDir, linkerBin, config>>
              [] run.cmd = "build-linker" ->
                    /\ pc' \in LinkerPcs \cup {"idle"}
                    /\ ~Did(run.log, {"clone llvm-project"} \cup LlvmSteps)
                    /\ ~run.markerAtStart /\ ~run.llvmOk
                    /\ pc # "idle" => UNCHANGED <<srcDir, fs>>
              [] run.cmd = "build" ->
                    /\ pc' \in ProjectPcs \cup {"idle"}
                    /\ StepsOf(run.log) \in {<<>>, <<"build project">>}
                    /\ pc # "idle" => UNCHANGED <<srcDir, linkerDir, linkerBin, fs, config>>
              [] OTHER -> TRUE

\* C13: build-llvm never clones or builds the linker and never changes the
\* config file; build-linker never clones, configures or builds LLVM and never
\* comes to the marker check; build starts only the project's build and changes
\* neither the checkouts, the install tree nor the config file.
SubcommandFrame == [][FrameStep]_vars

SubcommandFrameWitness ==
    /\ Len(hist) = 2 /\ pc = "idle"
    /\ hist[1].cmd = "build-llvm" /\ hist[1].status = "ok"
    /\ Cur.cmd = "build-linker" /\ Cur.status = "ok"
    /\ fs = ResolvedTree /\ srcDir = "complete"
    /\ linkerDir = "complete" /\ config = ExpectedConfig

\* The linker clone or the linker build of the run has failed.
LinkerStepFailed(run) ==
    \E i \in 1..Len(run.log) :
        /\ run.log[i].ev \in {"nonzero", "spawn_failed"}
        /\ run.log[i].path \in {<<"clone sbpf-linker">>, <<"build sbpf-linker">>}

\* What one step may do to config.toml.
ConfigStep ==
    /\ (pc # "idle" /\ config' # config) =>
            /\ pc = "write_config"
            /\ Cur.log # <<>>
            /\ Cur.log[Len(Cur.log)] = Event("ok", <<"build sbpf-linker">>)
    /\ hist' # <<>> =>
            LET run == hist'[Len(hist')]
            IN  /\ LinkerStepFailed(run) => ~Did(run.log, {"write config"})
                /\ Did(run.log, {"write config"}) =>
                        \E i \in 1..Len(run.log) : run.log[i] = Event("ok", <<"build sbpf-linker">>)

\* C18: the program changes config.toml only in the step that follows a linker
\* build that exited with success; a run whose linker clone or linker build
\* failed leaves the file as it was, and a run that wrote it has built the linker.
ConfigAfterLinkerBuild == [][ConfigStep]_vars

ConfigAfterLinkerBuildWitness ==
    /\ Len(hist) = 2 /\ pc = "idle"
    /\ hist[1].touched
    /\ Cur.cmd = "build-linker" /\ Cur.status = "err"
    /\ Cur.log[Len(Cur.log)] = Event("nonzero", <<"build sbpf-linker">>)
    /\ config = ManualConfig

\* The error message e quotes x.
Names(e, x) == \E i \in 1..Len(e) : e[i] = x

\* C17: the error of a failed clone names the clone, the error of a failed
\* configure names the configure command, and the error of a failed build and
\* install names the build command (and not another one).
ErrorsNameTheAction ==
    (hist # <<>> /\ Cur.status = "err" /\ Cur.log # <<>>) =>
        LET last == Cur.log[Len(Cur.log)]
        IN  last.ev \in {"nonzero", "spawn_failed"} =>
                /\ \A c \in Clones : last.path = <<c>> => Names(Cur.err, c)
                /\ last.path = <<"configure LLVM">> => Names(Cur.err, cmake_configure)
                /\ last.path = <<"build LLVM">> =>
                        Names(Cur.err, cmake_build) /\ ~Names(Cur.err, cmake_configure)

----------------------------------------------------------------------------
\* Termination (checked under FairSpec).

\* A step that leaves the program in the walk has taken one entry off those
\* the walk has still to visit.
WalkProgress ==
    (pc = "walk" /\ pc' = "walk") => (todo' \subseteq todo /\ todo' # todo)

\* C19: when every process that is started exits, every run of every
\* subcommand comes to its end, with success or with an error; the walk visits
\* no entry twice.
Termination == ((pc # "idle") ~> (pc = "idle")) /\ [][WalkProgress]_vars

TerminationWitness ==
    /\ pc = "idle" /\ Len(hist) = 2
    /\ hist[1].cmd = "build-llvm" /\ hist[1].status = "ok"
    /\ Did(hist[1].log, {"resolve symlinks"})
    /\ Cur.cmd = "build" /\ Cur.status = "err"

----------------------------------------------------------------------------
\* Properties of setup_llvm on a cache without the checkout (checked under CacheSpec).

\* What one step of setup_llvm may do: the checkout step looks at the source
\* directory only, the marker check comes after it and ends the run.
MarkerStep ==
    LET run == hist'[Len(hist')]
    IN  /\ (pc = "setup_llvm" /\ pc' # "idle") =>
                IF srcDir = "absent"
                THEN pc' = "llvm_clone_wait" /\ StepsOf(run.log) = <<"clone llvm-project">>
                ELSE pc' = "llvm_built_check" /\ StepsOf(run.log) = <<>>
        /\ (pc = "llvm_built_check" /\ PathExists(fs, Marker)) =>
                /\ pc' = "idle"
                /\ run.status = "ok" /\ run.llvmOk
                /\ run.log = Cur.log
        /\ (hist' # <<>> /\ run.markerAtStart) =>
                /\ StepsOf(run.log) \in {<<>>, <<"clone llvm-project">>}
                /\ Did(run.log, {"checkout skipped"}) =>
                        \A i \in 1..Len(run.log) :
                            run.log[i].ev \notin Processes \cup ProcStatus

\* C14: setup_llvm ensures the checkout before the marker check and whatever
\* the marker is: with the marker and no checkout the run starts the clone once
\* and then neither the configure nor the build; with the marker and the
\* checkout it starts no process at all.
MarkerAfterCheckout == [][MarkerStep]_vars

MarkerAfterCheckoutWitness ==
    /\ pc = "idle" /\ hist # <<>>
    /\ Cur.markerAtStart /\ Cur.status = "ok" /\ Cur.llvmOk
    /\ Evs(Cur.log) = <<"clone llvm-project", "ok">>

----------------------------------------------------------------------------
\* Properties of the symlink resolution (checked under WalkSpec).

\* The run has ended with exit status zero.
RunSucceeded == pc = "idle" /\ hist # <<>> /\ Cur.status = "ok"

IsAbsLink(e) == e.k = "link" /\ e.abs

\* The absolute symlinks of the tree, before the walk, whose target is a real file.
LinksToFiles == {l \in InstallPaths : IsAbsLink(fs0[l]) /\ fs0[fs0[l].v].k = "file"}

\* l is now the file its target was, and the target's old path is vacant.
Resolved(l) == fs[l] = fs0[fs0[l].v] /\ fs[fs0[l].v] = None

\* l was the target of an absolute symlink of the tree before the walk.
Targeted(l) == \E m \in InstallPaths : IsAbsLink(fs0[m]) /\ fs0[m].v = l

\* C6 as stated: after the walk has completed, every absolute symlink L whose
\* target T was a real file is a real file with T's contents, and T is gone.
SymlinkResolutionAnyTree == RunSucceeded => \A l \in LinksToFiles : Resolved(l)

\* C6 amended: the same for every such L that no absolute symlink of the tree
\* points at.
SymlinkResolutionCorrect ==
    RunSucceeded => \A l \in LinksToFiles : ~Targeted(l) => Resolved(l)

SymlinkResolutionWitness ==
    /\ RunSucceeded
    /\ \E l \in LinksToFiles : ~Targeted(l) /\ Resolved(l) /\ fs[l].k = "file"

\* An entry the walk is not to touch: anything but an absolute symlink, and not
\* the target of an absolute symlink of the tree.
Untouchable(p) == ~IsAbsLink(fs0[p]) /\ ~Targeted(p)

\* The relative symlinks of the tree before the walk.
RelLinks == {r \in InstallPaths : fs0[r].k = "link" /\ ~fs0[r].abs}

\* C7 as stated: the walk leaves every regular file, directory and relative
\* symlink, and the target of each relative symlink, exactly as it was, unless an
\* absolute symlink of the tree pointed at it.
WalkFrameAnyTarget ==
    /\ \A p \in Paths : (fs0[p].k # "none" /\ Untouchable(p)) => fs[p] = fs0[p]
    /\ \A r \in RelLinks : ~Targeted(fs0[r].v) => fs[fs0[r].v] = fs0[fs0[r].v]

\* C7 amended: the same, except that the target of a relative symlink that is
\* itself an absolute symlink is resolved like every absolute symlink.
WalkFrame ==
    /\ \A p \in Paths : (fs0[p].k # "none" /\ Untouchable(p)) => fs[p] = fs0[p]
    /\ \A r \in RelLinks : Untouchable(fs0[r].v) => fs[fs0[r].v] = fs0[fs0[r].v]

WalkFrameWitness ==
    /\ RunSucceeded
    /\ fs # fs0
    /\ \E p \in InstallPaths, r \in RelLinks :
        /\ fs0[p].k = "file" /\ fs[p] = fs0[p]
        /\ fs0[fs0[r].v].k = "file" /\ fs[r] = fs0[r] /\ fs[fs0[r].v] = fs0[fs0[r].v]

\* Every absolute symlink of the tree had a target that was no symlink.
TargetsAreNotLinks ==
    \A l \in InstallPaths : IsAbsLink(fs0[l]) => fs0[fs0[l].v].k # "link"

\* C15 as stated: after the walk has completed, on any tree, no entry of the
\* install tree is an absolute symlink and every entry that was one is a real file.
NoAbsoluteLinksAnyTree ==
    RunSucceeded =>
        \A p \in InstallPaths :
            /\ ~IsAbsLink(fs[p])
            /\ IsAbsLink(fs0[p]) => fs[p].k = "file"

\* C15 amended: the same on the trees where no absolute symlink points at a
\* symlink (another link or itself); the target may lie inside the install tree.
NoAbsoluteLinks ==
    (RunSucceeded /\ TargetsAreNotLinks) =>
        \A p \in InstallPaths :
            /\ ~IsAbsLink(fs[p])
            /\ IsAbsLink(fs0[p]) => (fs[p].k = "file" /\ fs[p] = fs0[fs0[p].v])

NoAbsoluteLinksWitness ==
    /\ RunSucceeded /\ TargetsAreNotLinks
    /\ \E l \in InstallPaths :
        /\ IsAbsLink(fs0[l]) /\ fs0[l].v \in InstallPaths
        /\ fs[l].k = "file" /\ fs[fs0[l].v] = None

\* The walk has ended main with an error on an entry.
WalkFailed ==
    /\ pc = "idle" /\ hist # <<>> /\ Cur.status = "err"
    /\ Cur.log[Len(Cur.log)].ev = "io error"

\* The entry the walk failed on.
FailedEntry == Cur.log[Len(Cur.log)].path[1]

\* The places of the message e that quote a path of the trees.
PathsNamed(e) == {i \in 1..Len(e) : e[i] \in Paths}

\* The run has ended with an error where the walk stood, setup_llvm has not
\* returned Ok, and the entry and those not yet visited are still to be done.
WalkAborted == /\ ~Cur.llvmOk /\ Cur.err # Ok /\ FailedEntry \in todo

\* C16 as stated: a walk that fails reading a link or renaming a target ends
\* the run with an error that names the target path and the link path, and
\* processes no later entry.
WalkFailureNamesBoth ==
    (WalkFailed /\ Cur.err # ReadEntryError) =>
        /\ WalkAborted
        /\ Names(Cur.err, FailedEntry)
        /\ Cardinality(PathsNamed(Cur.err)) = 2

\* C16 amended: the same, where the error of a failed rename names the target
\* path and the link path, the error of a failed read of a link names the link
\* path only, and the error of a failed read of an entry names neither.
WalkFailureAborts ==
    WalkFailed =>
        /\ WalkAborted
        /\ IF IsAbsLink(fs[FailedEntry])
           THEN /\ Names(Cur.err, FailedEntry) /\ Names(Cur.err, fs[FailedEntry].v)
                /\ Cardinality(PathsNamed(Cur.err)) = 2
           ELSE \/ Cur.err = ReadEntryError
                \/ Names(Cur.err, FailedEntry) /\ Cardinality(PathsNamed(Cur.err)) = 1

WalkFailureAbortsWitness ==
    /\ WalkFailed /\ IsAbsLink(fs[FailedEntry])
    /\ fs0[fs[FailedEntry].v].k = "file" /\ fs[fs[FailedEntry].v] = None
    /\ \E m \in InstallPaths \ {FailedEntry} :
        IsAbsLink(fs0[m]) /\ fs0[m].v = fs[FailedEntry].v /\ fs[m] = fs0[fs0[m].v]

====
